---------------------------- MODULE Spec2Model ----------------------------
(***************************************************************************)
(* RapidAD-AI backend proxy: the provider-routing and response             *)
(* normalisation layer (src/app.py, src/services/lifestyle_shot.py,        *)
(* src/services/background_removal.py, src/services/video_generator.py).   *)
(*                                                                         *)
(* Six specifications share the module's variables; each one drives one    *)
(* part of the program and leaves the other parts idle:                    *)
(*   SpecExtract  _extract_urls and the {urls, result_url, raw} payloads   *)
(*   Spec         generate_product_shot and the lifestyle operation        *)
(*   SpecBg       remove_background and its endpoint fallback              *)
(*   SpecVideo    the poll loop of api_generate_video                      *)
(*   SpecInbound  the required fields of the inbound requests              *)
(*   SpecConc     two concurrent calls and the process-wide state          *)
(***************************************************************************)
EXTENDS Integers, Sequences, FiniteSets, TLC

VARIABLES
    ex_pc,        \* extractor run: "idle" | "done"
    ex_caller,    \* who ran _extract_urls: "none" | "direct" | "generate_hd" | "process_photography"
    ex_data,      \* the provider response handed to _extract_urls
    ex_ret,       \* what _extract_urls did: [raised, urls]
    ex_payload,   \* the endpoint's answer: [kind, urls, result_url, status]
    sh_pc,        \* lifestyle request: "idle" | "called" | "returned" | "responded"
    sh_caller,    \* "none" | "direct" | "app"
    sh_args,      \* the arguments of generate_product_shot
    sh_route,     \* the branch of the routing decision that ran
    sh_merges,    \* the calls of merge_vision_and_prompt: <<[key, ref, prompt, out]>>
    sh_posts,     \* the requests.post calls: <<[url, body]>>
    sh_env,       \* what the provider did with the POST: [kind, status, json]
    sh_ret,       \* what generate_product_shot returned
    sh_http,      \* the answer of api_process_photography: [kind, status, body]
    bg_pc,        \* remove_background: "idle" | "primary" | "alt1" | "alt2" | "check" | "done"
    bg_args,      \* its arguments
    bg_posts,     \* the requests.post calls so far: <<[url, body]>>
    bg_statuses,  \* the status code of each response so far
    bg_outcome,   \* "none" | "returned" | "raised"
    vid_pc,       \* api_generate_video: "idle" | "submit" | "sleep" | "check" | "done"
    vid_req,      \* the fields of the request: [image_url, prompt], TRUE when given
    vid_job,      \* the provider's job: [readyAt, how]
    vid_polls,    \* status checks issued so far
    vid_status,   \* what the last status check reported
    vid_clock,    \* time slept so far
    vid_raised,   \* whether a provider call raised
    vid_http,     \* the endpoint's answer: [outcome, status, video_url]
    rq_pc,        \* an inbound request: "idle" | "done"
    rq_endpoint,  \* "none" | "generate_hd" | "enhance_prompt" | "process_photography"
    rq_form,      \* the fields of the request: [prompt, image_file, image_url, operation]
    rq_calls,     \* the downloads and service calls the handler made, in order
    rq_http,      \* the endpoint's answer: [status, error]
    cc_pc,        \* two concurrent calls: "idle" | "started" | "configured" | "done" each
    cc_op,        \* what each call is: "none" | "merge" | "replicate"
    cc_key,       \* the key or token each call was given
    cc_used,      \* the credential the SDK call of each one ran with: [key, by]
    cc_sdk,       \* the module-level configuration of google.generativeai: [key, by]
    cc_env        \* os.environ["REPLICATE_API_TOKEN"]: [key, by]

exVars == <<ex_pc, ex_caller, ex_data, ex_ret, ex_payload>>
shVars == <<sh_pc, sh_caller, sh_args, sh_route, sh_merges, sh_posts, sh_env, sh_ret, sh_http>>

bgVars == <<bg_pc, bg_args, bg_posts, bg_statuses, bg_outcome>>
vidVars == <<vid_pc, vid_req, vid_job, vid_polls, vid_status, vid_clock, vid_raised, vid_http>>
rqVars == <<rq_pc, rq_endpoint, rq_form, rq_calls, rq_http>>
ccVars == <<cc_pc, cc_op, cc_key, cc_used, cc_sdk, cc_env>>

vars == <<ex_pc, ex_caller, ex_data, ex_ret, ex_payload,
          sh_pc, sh_caller, sh_args, sh_route, sh_merges, sh_posts, sh_env, sh_ret, sh_http,
          bg_pc, bg_args, bg_posts, bg_statuses, bg_outcome,
          vid_pc, vid_req, vid_job, vid_polls, vid_status, vid_clock, vid_raised, vid_http,
          rq_pc, rq_endpoint, rq_form, rq_calls, rq_http,
          cc_pc, cc_op, cc_key, cc_used, cc_sdk, cc_env>>

\* What a step of one part of the program leaves alone.
notEx == <<shVars, bgVars, vidVars, rqVars, ccVars>>
notSh == <<exVars, bgVars, vidVars, rqVars, ccVars>>
notBg == <<exVars, shVars, vidVars, rqVars, ccVars>>
notVid == <<exVars, shVars, bgVars, rqVars, ccVars>>
notRq == <<exVars, shVars, bgVars, vidVars, ccVars>>
notCc == <<exVars, shVars, bgVars, vidVars, rqVars>>

(***************************************************************************)
(* JSON values.  A value is a record [t, s, l]: t is its type, s the       *)
(* characters of a string, l the elements of a list.  A key that is not    *)
(* in an object holds Absent.  Strings are sequences of one-character      *)
(* strings so that Python's indexing of a string is computable.            *)
(***************************************************************************)
Absent == [t |-> "absent", s |-> <<>>, l |-> <<>>]
Null == [t |-> "null", s |-> <<>>, l |-> <<>>]
Num == [t |-> "num", s |-> <<>>, l |-> <<>>]
Str(chars) == [t |-> "str", s |-> chars, l |-> <<>>]
List(elems) == [t |-> "list", s |-> <<>>, l |-> elems]

\* Bounds of the enumerated provider responses.
MaxResultLen == 2
MaxInnerLen == 1

SeqsUpTo(S, n) == UNION {[1..k -> S] : k \in 0..n}

\* Elements of the lists found inside an element of "result".
InnerElems == {Str(<<"i">>), Str(<<"j", "k">>)}
InnerLists == {List(l) : l \in SeqsUpTo(InnerElems, MaxInnerLen)}

\* Values of the "urls" and "url" keys of an object inside "result".
ItemUrlsVals == {Absent, Null, Num, Str(<<>>), Str(<<"x", "y">>)} \cup InnerLists
ItemUrlVals == {Absent, Null, Str(<<"v">>)}

\* An element of "result": a JSON value, extended with the two keys an object may hold.
Item(v, urls, url) == [t |-> v.t, s |-> v.s, l |-> v.l, urls |-> urls, url |-> url]
Obj == [t |-> "obj", s |-> <<>>, l |-> <<>>]
Items ==
    {Item(Obj, us, u) : us \in ItemUrlsVals, u \in ItemUrlVals}
    \cup {Item(v, Absent, Absent) : v \in InnerLists \cup {Null, Num, Str(<<"s", "t">>)}}

AsValue(item) == [t |-> item.t, s |-> item.s, l |-> item.l]

\* The "result" key: absent, not a list, or a list of Items.
ResultLists == SeqsUpTo(Items, MaxResultLen)

\* A provider response: isDict is FALSE for a JSON value that is no object.
Response(d, rus, ru, r, us) ==
    [isDict |-> d, result_urls |-> rus, result_url |-> ru,
     resultT |-> r.t, result |-> r.l, urls |-> us]

NoResult == [t |-> "absent", l |-> <<>>]
BadResult == [t |-> "str", l |-> <<>>]
ResultOf(items) == [t |-> "list", l |-> items]

TopListVals(c) == {Absent, Null, List(<<>>), List(<<Str(<<c>>)>>), List(<<Str(<<c>>), Str(<<c, c>>)>>)}
TopUrlVals == {Absent, Null, Str(<<"p">>)}

\* Responses that vary the four recognised keys against each other.
PriorityResponses ==
    {Response(TRUE, rus, ru, r, us) :
        rus \in TopListVals("r"), ru \in TopUrlVals,
        r \in {NoResult, BadResult, ResultOf(<<>>),
               ResultOf(<<Item(Str(<<"s", "t">>), Absent, Absent)>>),
               ResultOf(<<Item(Obj, Absent, Str(<<"v">>)), Item(Null, Absent, Absent)>>)},
        us \in TopListVals("w")}

\* Responses that vary the elements of "result".
ResultResponses ==
    {Response(TRUE, Absent, Absent, ResultOf(items), us) :
        items \in ResultLists, us \in {Absent, List(<<Str(<<"w">>)>>)}}

\* JSON values that are no object (a list, a string, null ...).
NonDictResponses == {Response(FALSE, Absent, Absent, NoResult, Absent)}

Responses == PriorityResponses \cup ResultResponses \cup NonDictResponses

\* The responses the endpoints are run on: those with at most one element in "result".
EndpointResponses == {d \in Responses : Len(d.result) <= 1}

(***************************************************************************)
(* _extract_urls, src/app.py:47-64                                         *)
(***************************************************************************)
Returned(urls) == [raised |-> FALSE, urls |-> urls]
Raised == [raised |-> TRUE, urls |-> <<>>]

\* len(x): defined for str and list, TypeError for None and numbers.
HasLen(v) == v.t \in {"str", "list"}
PyLen(v) == IF v.t = "str" THEN Len(v.s) ELSE Len(v.l)
\* x[0] of a non-empty str (its first character) or list (its first element).
PyFirst(v) == IF v.t = "str" THEN Str(<<v.s[1]>>) ELSE v.l[1]

\* `"urls" in item and len(item["urls"]) > 0` (line 58); "raise" when len() throws.
ItemUrlsNonEmpty(item) ==
    IF item.urls.t = "absent" THEN "no"
    ELSE IF ~HasLen(item.urls) THEN "raise"
    ELSE IF PyLen(item.urls) > 0 THEN "yes" ELSE "no"

\* One iteration of the loop of lines 56-61: what the element appends.
ItemStep(item) ==
    IF item.t = "obj"
    THEN CASE ItemUrlsNonEmpty(item) = "raise" -> Raised
           [] ItemUrlsNonEmpty(item) = "yes" -> Returned(<<PyFirst(item.urls)>>)
           [] OTHER -> IF item.url.t # "absent"
                       THEN Returned(<<item.url>>)
                       ELSE Returned(<<>>)
    ELSE IF item.t = "list" /\ Len(item.l) > 0 THEN Returned(<<item.l[1]>>)
    ELSE IF item.t = "str" THEN Returned(<<AsValue(item)>>)
    ELSE Returned(<<>>)

RECURSIVE ResultLoop(_, _)
\* The for loop of lines 56-61 over data["result"], urls being what was appended so far.
ResultLoop(items, urls) ==
    IF items = <<>> THEN Returned(urls)
    ELSE LET step == ItemStep(Head(items))
         IN  IF step.raised THEN Raised
             ELSE ResultLoop(Tail(items), urls \o step.urls)

\* _extract_urls with the last `elif` of line 62 written as `if`.
extract_urls_merging(data) ==
    IF ~data.isDict THEN Returned(<<>>)
    ELSE LET first ==
               IF data.result_urls.t = "list" THEN Returned(data.result_urls.l)
               ELSE IF data.result_url.t # "absent" THEN Returned(<<data.result_url>>)
               ELSE IF data.resultT = "list" THEN ResultLoop(data.result, <<>>)
               ELSE Returned(<<>>)
         IN  IF first.raised THEN Raised
             ELSE IF data.urls.t = "list" THEN Returned(first.urls \o data.urls.l)
             ELSE first

extract_urls(data) ==
    IF ~data.isDict THEN Returned(<<>>)
    ELSE IF data.result_urls.t = "list" THEN Returned(data.result_urls.l)
    ELSE IF data.result_url.t # "absent" THEN Returned(<<data.result_url>>)
    ELSE IF data.resultT = "list" THEN ResultLoop(data.result, <<>>)
    ELSE IF data.urls.t = "list" THEN Returned(data.urls.l)
    ELSE Returned(<<>>)

(***************************************************************************)
(* The {urls, result_url, raw} payloads, src/app.py:97-104 and 165-174     *)
(***************************************************************************)
NoPayload == [kind |-> "none", urls |-> <<>>, result_url |-> Null, status |-> 0]
SuccessPayload(urls, first) ==
    [kind |-> "success", urls |-> urls, result_url |-> first, status |-> 200]
ErrorPayload(status) ==
    [kind |-> "error", urls |-> <<>>, result_url |-> Null, status |-> status]

\* result.get('result_url') if isinstance(result, dict) else None (line 168)
GetResultUrl(data) ==
    IF data.isDict /\ data.result_url.t # "absent" THEN data.result_url ELSE Null

ExIdle ==
    /\ ex_pc = "idle"
    /\ ex_caller = "none"
    /\ ex_data = Response(FALSE, Absent, Absent, NoResult, Absent)
    /\ ex_ret = Returned(<<>>)
    /\ ex_payload = NoPayload

\* A direct call of _extract_urls(data).
ExtractUrlsCall ==
    /\ ex_pc = "idle"
    /\ \E data \in Responses :
        /\ ex_data' = data
        /\ ex_ret' = extract_urls(data)
    /\ ex_caller' = "direct"
    /\ ex_pc' = "done"
    /\ UNCHANGED <<ex_payload, notEx>>

\* api_generate_hd once generate_hd_image has returned `result` (lines 97-104).
ApiGenerateHd ==
    /\ ex_pc = "idle"
    /\ \E result \in EndpointResponses :
        LET ret == extract_urls(result)
        IN  /\ ex_data' = result
            /\ ex_ret' = ret
            /\ ex_payload' =
                 IF ret.raised THEN ErrorPayload(500)
                 ELSE SuccessPayload(ret.urls,
                        IF ret.urls # <<>> THEN ret.urls[1] ELSE Null)
    /\ ex_caller' = "generate_hd"
    /\ ex_pc' = "done"
    /\ UNCHANGED notEx

\* api_process_photography once the operation has returned `result` (lines 165-174).
ApiProcessPhotographyResult ==
    /\ ex_pc = "idle"
    /\ \E result \in EndpointResponses :
        LET ret == extract_urls(result)
        IN  /\ ex_data' = result
            /\ ex_ret' = ret
            /\ ex_payload' =
                 IF ret.raised THEN ErrorPayload(500)
                 ELSE SuccessPayload(ret.urls,
                        IF ret.urls # <<>> THEN ret.urls[1] ELSE GetResultUrl(result))
    /\ ex_caller' = "process_photography"
    /\ ex_pc' = "done"
    /\ UNCHANGED notEx

\* The next request: the handlers keep nothing between requests.
ExReset ==
    /\ ex_pc = "done"
    /\ ex_pc' = "idle"
    /\ ex_caller' = "none"
    /\ ex_data' = Response(FALSE, Absent, Absent, NoResult, Absent)
    /\ ex_ret' = Returned(<<>>)
    /\ ex_payload' = NoPayload
    /\ UNCHANGED notEx

(***************************************************************************)
(* Python strings of the lifestyle route.  A value is [k, s]: k tells a    *)
(* str from None and from a key that is not in a dict, s holds the str as  *)
(* a sequence of tokens: "data:image", ",", "http", "/" and " " are the    *)
(* pieces the code looks at, every other token is opaque text.             *)
(***************************************************************************)
Missing == [k |-> "absent", s |-> <<>>]
PyNone == [k |-> "none", s |-> <<>>]
PyStr(toks) == [k |-> "str", s |-> toks]
\* bool(x) of a str or None
Truthy(v) == v.k = "str" /\ v.s # <<>>

RECURSIVE LStrip(_, _)
\* s.lstrip(c)
LStrip(s, c) == IF s # <<>> /\ Head(s) = c THEN LStrip(Tail(s), c) ELSE s

RECURSIVE RStrip(_, _)
RStrip(s, c) ==
    IF s # <<>> /\ s[Len(s)] = c THEN RStrip(SubSeq(s, 1, Len(s) - 1), c) ELSE s

\* s.strip()
Strip(s) == RStrip(LStrip(s, " "), " ")

\* s.startswith(prefix), the prefix being a sequence of tokens
StartsWith(s, prefix) == Len(s) >= Len(prefix) /\ SubSeq(s, 1, Len(prefix)) = prefix

\* The place of the first token c of s, 0 when there is none.
FirstIndex(s, c) ==
    IF \E i \in 1..Len(s) : s[i] = c
    THEN CHOOSE i \in 1..Len(s) : s[i] = c /\ \A j \in 1..(i - 1) : s[j] # c
    ELSE 0

\* Bound of the whitespace put around an enumerated scene description.
MaxPad == 1

Pad(n) == [i \in 1..n |-> " "]

DEFAULT_PROMPT == <<"High-end studio product photography, professional lighting, photorealistic, integrated shadows, 8k.">>

BY_IMAGE == "https://engine.prod.bria-api.com/v1/product/lifestyle_shot_by_image"
BY_TEXT == "https://engine.prod.bria-api.com/v1/product/lifestyle_shot_by_text"

\* The scene descriptions a caller may pass.
SceneStrs ==
    {Pad(i) \o core \o Pad(j) :
        i \in 0..MaxPad, j \in 0..MaxPad,
        core \in {<<>>, DEFAULT_PROMPT, <<"on a beach">>, DEFAULT_PROMPT \o <<"on a beach">>}}
SceneArgs == {PyNone} \cup {PyStr(s) : s \in SceneStrs}

\* The files of the working directory: the paths that exist, and those that can be read.
ExistingPaths == {<<"assets/templates/", "t.png">>, <<"locked.png">>}
ReadablePaths == {<<"assets/templates/", "t.png">>}
\* base64.b64encode(f.read()).decode('utf-8') of the file at path
FileB64(path) == PyStr(<<"b64 of">> \o path)

\* The image references a caller may pass.
ProductRefs ==
    {PyNone, PyStr(<<"data:image", "/png;base64", ",", "iVBOR">>),
     PyStr(<<"data:image", "/png;base64">>),
     PyStr(<<"http", "s://x/p.png">>), PyStr(<<"iVBOR">>), PyStr(<<"/", "9j", "/", "4AAQ">>),
     PyStr(<<"assets/templates/", "t.png">>)}
ReferenceRefs ==
    {PyNone, PyStr(<<>>),
     PyStr(<<"data:image", "/png;base64", ",", "iVBOR">>),
     PyStr(<<"data:image", "/png;base64", ",", "iVBOR", ",", "tail">>),
     PyStr(<<"data:image", "/png;base64">>),
     PyStr(<<"data:image", ",">>),
     PyStr(<<"http", "s://x/template.png">>),
     PyStr(<<"assets/templates/", "t.png">>),
     PyStr(<<"/", "assets/templates/", "t.png">>),
     PyStr(<<"/", "/", "assets/templates/", "t.png">>),
     PyStr(<<"/", "assets/templates/", "gone.png">>),
     PyStr(<<"locked.png">>),
     PyStr(<<"iVBOR">>)}
KeyArgs == {PyNone, PyStr(<<>>), PyStr(<<"AIza">>)}

(***************************************************************************)
(* _prepare_image, src/services/lifestyle_shot.py:191-213                  *)
(***************************************************************************)
Prepared(key, val) == [key |-> key, val |-> val]

\* The place of the last token c of s, 0 when there is none.
LastIndex(s, c) ==
    IF \E i \in 1..Len(s) : s[i] = c
    THEN CHOOSE i \in 1..Len(s) : s[i] = c /\ \A j \in (i + 1)..Len(s) : s[j] # c
    ELSE 0

\* _prepare_image with line 203 taking at most one leading slash off.
prepare_image_single_strip(data) ==
    IF ~Truthy(data) THEN Prepared("none", PyNone)
    ELSE IF Head(data.s) = "data:image"
    THEN LET comma == FirstIndex(data.s, ",")
         IN  IF comma = 0
             THEN Prepared("url", data)
             ELSE Prepared("file", PyStr(SubSeq(data.s, comma + 1, Len(data.s))))
    ELSE IF Head(data.s) = "http" THEN Prepared("url", data)
    ELSE LET clean_path == IF Head(data.s) = "/" THEN Tail(data.s) ELSE data.s
         IN  IF clean_path \in ExistingPaths /\ clean_path \in ReadablePaths
             THEN Prepared("file", FileB64(clean_path))
             ELSE Prepared("file", data)

\* _prepare_image with line 195 written as data.rsplit(",", 1)[1].
prepare_image_last_comma(data) ==
    IF ~Truthy(data) THEN Prepared("none", PyNone)
    ELSE IF Head(data.s) = "data:image"
    THEN LET comma == LastIndex(data.s, ",")
         IN  IF comma = 0
             THEN Prepared("url", data)
             ELSE Prepared("file", PyStr(SubSeq(data.s, comma + 1, Len(data.s))))
    ELSE IF Head(data.s) = "http" THEN Prepared("url", data)
    ELSE LET clean_path == LStrip(data.s, "/")
         IN  IF clean_path \in ExistingPaths /\ clean_path \in ReadablePaths
             THEN Prepared("file", FileB64(clean_path))
             ELSE Prepared("file", data)

prepare_image(data) ==
    IF ~Truthy(data) THEN Prepared("none", PyNone)
    ELSE IF Head(data.s) = "data:image"
    THEN LET comma == FirstIndex(data.s, ",")
         IN  IF comma = 0
             THEN Prepared("url", data)
             ELSE Prepared("file", PyStr(SubSeq(data.s, comma + 1, Len(data.s))))
    ELSE IF Head(data.s) = "http" THEN Prepared("url", data)
    ELSE LET clean_path == LStrip(data.s, "/")
         IN  IF clean_path \in ExistingPaths /\ clean_path \in ReadablePaths
             THEN Prepared("file", FileB64(clean_path))
             ELSE Prepared("file", data)

(***************************************************************************)
(* merge_vision_and_prompt, src/services/lifestyle_shot.py:12-63           *)
(***************************************************************************)
\* What the vision side does in one call: whether the library was imported,
\* whether preparing the image or calling the model raises, and the model's text.
MergerEnv(lib, raises, text) == [lib |-> lib, raises |-> raises, text |-> text]
NoMerger == MergerEnv(FALSE, FALSE, <<>>)
MergerEnvs ==
    {NoMerger, MergerEnv(TRUE, TRUE, <<>>),
     MergerEnv(TRUE, FALSE, <<" ", "product on the rustic wooden table", " ">>),
     MergerEnv(TRUE, FALSE, <<" ">>)}

\* How a call ends: "unavailable" (lines 21-22: no library or no key), "failed"
\* (an exception inside the try of lines 24-60: configure, the decode of a
\* data-URI, which line 31 cannot split when it holds no comma, the fetch of a
\* URL, the open of a file, or the model call) or "merged".
MergeOutcome(menv, gemini_api_key, ref_image_data) ==
    IF ~menv.lib \/ ~Truthy(gemini_api_key) THEN "unavailable"
    ELSE IF menv.raises THEN "failed"
    ELSE IF /\ Truthy(ref_image_data)
            /\ Head(ref_image_data.s) = "data:image"
            /\ FirstIndex(ref_image_data.s, ",") = 0 THEN "failed"
    ELSE "merged"

\* What the caller gets in place of a string when the call raises.
MergeRaised == [k |-> "raised", s |-> <<>>]

\* merge_vision_and_prompt without the try/except of lines 24 and 61-63.
merge_vision_and_prompt_unguarded(menv, gemini_api_key, ref_image_data, user_prompt) ==
    CASE MergeOutcome(menv, gemini_api_key, ref_image_data) = "unavailable" -> user_prompt
      [] MergeOutcome(menv, gemini_api_key, ref_image_data) = "failed" -> MergeRaised
      [] OTHER -> PyStr(Strip(menv.text))

merge_vision_and_prompt(menv, gemini_api_key, ref_image_data, user_prompt) ==
    CASE MergeOutcome(menv, gemini_api_key, ref_image_data) = "unavailable" -> user_prompt
      [] MergeOutcome(menv, gemini_api_key, ref_image_data) = "failed" -> user_prompt
      [] OTHER -> PyStr(Strip(menv.text))

(***************************************************************************)
(* generate_product_shot, src/services/lifestyle_shot.py:169-304           *)
(***************************************************************************)
Args(image_data, ref_image_data, scene_description, gemini_api_key, sync) ==
    [image_data |-> image_data, ref_image_data |-> ref_image_data,
     scene_description |-> scene_description, gemini_api_key |-> gemini_api_key,
     sync |-> sync]
NoArgs == Args(PyNone, PyNone, PyNone, PyNone, FALSE)

\* The dict `data` of lines 216-221, holding Missing under the keys not set yet.
BaseBody(args) ==
    [num_results |-> 4, sync |-> args.sync, force_rmbg |-> FALSE,
     content_moderation |-> FALSE,
     file |-> Missing, image_url |-> Missing,
     ref_image_file |-> Missing, ref_image_url |-> Missing,
     scene_description |-> Missing, placement_type |-> Missing]

\* lines 222-224
WithProduct(body, image_data) ==
    LET p == prepare_image(image_data)
    IN  IF p.key = "file" THEN [body EXCEPT !.file = p.val]
        ELSE [body EXCEPT !.image_url = p.val]

\* lines 238-240 and 265-267
WithReference(body, ref_image_data) ==
    LET r == prepare_image(ref_image_data)
    IN  IF r.key = "file" THEN [body EXCEPT !.ref_image_file = r.val]
        ELSE [body EXCEPT !.ref_image_url = r.val]

\* line 230 without the comparison with DEFAULT_PROMPT.
is_custom_prompt_any_text(scene_description) == Truthy(scene_description)

\* line 230
is_custom_prompt(scene_description) ==
    /\ Truthy(scene_description)
    /\ Strip(scene_description.s) # Strip(DEFAULT_PROMPT)

\* The routing with the text-only branch of line 256 testing is_custom_prompt.
RouteCustomTextOnly(args) ==
    IF ~is_custom_prompt(args.scene_description) /\ Truthy(args.ref_image_data)
    THEN "exact"
    ELSE IF /\ is_custom_prompt(args.scene_description)
            /\ Truthy(args.ref_image_data)
            /\ Truthy(args.gemini_api_key)
    THEN "merge"
    ELSE IF is_custom_prompt(args.scene_description) THEN "text"
    ELSE "fallback"

\* The branch of the if/elif chain of lines 235-267 that runs.
Route(args) ==
    IF ~is_custom_prompt(args.scene_description) /\ Truthy(args.ref_image_data)
    THEN "exact"
    ELSE IF /\ is_custom_prompt(args.scene_description)
            /\ Truthy(args.ref_image_data)
            /\ Truthy(args.gemini_api_key)
    THEN "merge"
    ELSE IF Truthy(args.scene_description) THEN "text"
    ELSE "fallback"

RouteUrl(route) == IF route \in {"exact", "fallback"} THEN BY_IMAGE ELSE BY_TEXT

\* The request body with the reference image set on every route.
BodyKeepingReference(args, route, merged) ==
    LET base == WithReference(WithProduct(BaseBody(args), args.image_data), args.ref_image_data)
        routed ==
            CASE route = "merge" -> [base EXCEPT !.scene_description = merged]
              [] route = "text" -> [base EXCEPT !.scene_description = args.scene_description]
              [] OTHER -> base
    IN  [routed EXCEPT !.placement_type = PyStr(<<"original">>)]

\* The request body once the branch has run and line 272 has set the placement.
Body(args, route, merged) ==
    LET base == WithProduct(BaseBody(args), args.image_data)
        routed ==
            CASE route = "exact" -> WithReference(base, args.ref_image_data)
              [] route = "merge" -> [base EXCEPT !.scene_description = merged]
              [] route = "text" -> [base EXCEPT !.scene_description = args.scene_description]
              [] OTHER -> IF Truthy(args.ref_image_data)
                          THEN WithReference(base, args.ref_image_data)
                          ELSE base
    IN  [routed EXCEPT !.placement_type = PyStr(<<"original">>)]

\* What the provider does with the POST of line 286.  kind is "ok" (a 2xx answer
\* with a JSON body, `data`, holding an "error" key when errkey), "badjson" (a 2xx
\* answer whose body is no JSON), "http_error" (raise_for_status raises; json tells
\* whether the error body parses) or "noresponse" (the request itself failed).
PostEnv(kind, status, json, errkey, data) ==
    [kind |-> kind, status |-> status, json |-> json, errkey |-> errkey, data |-> data]
NoData == Response(FALSE, Absent, Absent, NoResult, Absent)
NoPost == PostEnv("none", 0, FALSE, FALSE, NoData)
ShotResponses ==
    {NoData,
     Response(TRUE, List(<<Str(<<"r">>), Str(<<"r", "r">>)>>), Absent, NoResult, Absent),
     Response(TRUE, Absent, Absent, ResultOf(<<Item(Obj, Null, Absent)>>), Absent)}
PostEnvs ==
    {PostEnv("ok", 200, TRUE, FALSE, d) : d \in ShotResponses}
    \cup {PostEnv("ok", 200, TRUE, TRUE, d) : d \in {d \in ShotResponses : d.isDict}}
    \cup {PostEnv("badjson", 200, FALSE, FALSE, NoData)}
    \cup {PostEnv("http_error", st, j, FALSE, NoData) : st \in {400, 422, 500}, j \in BOOLEAN}
    \cup {PostEnv("noresponse", 0, FALSE, FALSE, NoData)}

\* line 295 without the status of the response.
ErrorStatusAlways400(penv) == 400

\* line 295: the status of the exception's response, 400 when it has none.
ErrorStatus(penv) == IF penv.kind = "http_error" THEN penv.status ELSE 400

\* The return value: the provider's JSON (line 293) or the error object (lines 300, 302).
NoReturn ==
    [kind |-> "none", error_key |-> FALSE, error |-> "", status_code |-> -1,
     url_attempted |-> "", data |-> NoData]
ReturnValue(penv, url) ==
    IF penv.kind = "ok"
    THEN [kind |-> "json", error_key |-> penv.errkey, error |-> "", status_code |-> -1,
          url_attempted |-> "", data |-> penv.data]
    ELSE [kind |-> "error_obj", error_key |-> TRUE,
          error |-> IF penv.kind = "http_error"
                    THEN (IF penv.json THEN "response json" ELSE "response text")
                    ELSE "exception text",
          status_code |-> ErrorStatus(penv), url_attempted |-> url, data |-> NoData]

\* generate_product_shot left by an exception: the call of line 245 is outside
\* the try of line 285, so an exception of the merger would pass through.
RaisedReturn ==
    [kind |-> "raised", error_key |-> FALSE, error |-> "exception text", status_code |-> -1,
     url_attempted |-> "", data |-> NoData]

NoHttp == [kind |-> "none", status |-> 0, body |-> "none"]

ShIdle ==
    /\ sh_pc = "idle"
    /\ sh_caller = "none"
    /\ sh_args = NoArgs
    /\ sh_route = "none"
    /\ sh_merges = <<>>
    /\ sh_posts = <<>>
    /\ sh_env = NoPost
    /\ sh_ret = NoReturn
    /\ sh_http = NoHttp

\* A caller other than the HTTP layer calls generate_product_shot.
DirectCall ==
    /\ sh_pc = "idle"
    /\ \E image_data \in ProductRefs, ref_image_data \in ReferenceRefs,
          scene_description \in SceneArgs, gemini_api_key \in KeyArgs :
        sh_args' = Args(image_data, ref_image_data, scene_description, gemini_api_key, FALSE)
    /\ sh_caller' = "direct"
    /\ sh_pc' = "called"
    /\ UNCHANGED <<sh_route, sh_merges, sh_posts, sh_env, sh_ret, sh_http, notSh>>

\* image_to_base64(img_bytes), src/utils/image_utils.py:4-12, of the request's bytes
image_to_base64(img_bytes) == IF img_bytes = <<>> THEN PyNone ELSE PyStr(img_bytes)

\* The uploads and downloads of a request: the base64 text of the bytes, <<>> for none.
ImageBytes == {<<>>, <<"iVBOR">>, <<"/", "9j", "/", "4AAQ">>}

\* api_process_photography with operation=lifestyle, src/app.py:119-158: the form
\* holds an uploaded image (has_file) or an image_url whose download gives img_bytes.
ApiLifestyleRequest ==
    /\ sh_pc = "idle"
    /\ \E has_file \in BOOLEAN, has_url \in BOOLEAN, img_bytes \in ImageBytes,
          prompt \in SceneStrs, ref_url \in ReferenceRefs, google_api_key \in KeyArgs :
        IF ~has_file /\ ~has_url
        THEN /\ img_bytes = <<>> /\ prompt = <<>> /\ ref_url = PyNone /\ google_api_key = PyNone
             /\ sh_http' = [kind |-> "error", status |-> 400, body |-> "No image provided"]
             /\ sh_pc' = "responded"
             /\ UNCHANGED sh_args
        ELSE /\ LET stripped ==
                        IF Truthy(ref_url) /\ StartsWith(ref_url.s, <<"/", "assets/templates/">>)
                        THEN PyStr(LStrip(ref_url.s, "/"))
                        ELSE ref_url
                IN  sh_args' = Args(image_to_base64(img_bytes),
                                    IF Truthy(stripped) THEN stripped ELSE PyNone,
                                    PyStr(prompt), google_api_key, TRUE)
             /\ sh_pc' = "called"
             /\ UNCHANGED sh_http
    /\ sh_caller' = "app"
    /\ UNCHANGED <<sh_route, sh_merges, sh_posts, sh_env, sh_ret, notSh>>

\* generate_product_shot from its first line to its return.
GenerateProductShot ==
    /\ sh_pc = "called"
    /\ \E menv \in MergerEnvs, penv \in PostEnvs :
        LET route == Route(sh_args)
            merged == merge_vision_and_prompt(menv, sh_args.gemini_api_key,
                          sh_args.ref_image_data, sh_args.scene_description)
        IN  /\ route # "merge" => menv = NoMerger
            /\ sh_route' = route
            /\ sh_merges' =
                 IF route = "merge"
                 THEN <<[key |-> sh_args.gemini_api_key, ref |-> sh_args.ref_image_data,
                         prompt |-> sh_args.scene_description,
                         how |-> MergeOutcome(menv, sh_args.gemini_api_key,
                                              sh_args.ref_image_data),
                         out |-> merged]>>
                 ELSE <<>>
            /\ IF route = "merge" /\ merged = MergeRaised
               THEN /\ sh_posts' = <<>>
                    /\ sh_env' = NoPost
                    /\ sh_ret' = RaisedReturn
               ELSE /\ sh_posts' = <<[url |-> RouteUrl(route),
                                      body |-> Body(sh_args, route, merged)]>>
                    /\ sh_env' = penv
                    /\ sh_ret' = ReturnValue(penv, RouteUrl(route))
    /\ sh_pc' = "returned"
    /\ UNCHANGED <<sh_caller, sh_args, sh_http, notSh>>

\* api_process_photography after the call, src/app.py:160-174.
ApiLifestyleRespond ==
    /\ sh_pc = "returned"
    /\ sh_caller = "app"
    /\ sh_http' =
         IF sh_ret.kind = "raised"
         THEN [kind |-> "error", status |-> 500, body |-> "exception text"]
         ELSE IF sh_ret.error_key
         THEN [kind |-> "error",
               status |-> IF sh_ret.status_code # -1 THEN sh_ret.status_code ELSE 500,
               body |-> "result"]
         ELSE IF extract_urls(sh_ret.data).raised
         THEN [kind |-> "error", status |-> 500, body |-> "exception text"]
         ELSE [kind |-> "success", status |-> 200, body |-> "urls, result_url, raw"]
    /\ sh_pc' = "responded"
    /\ UNCHANGED <<sh_caller, sh_args, sh_route, sh_merges, sh_posts, sh_env, sh_ret, notSh>>

(***************************************************************************)
(* remove_background, src/services/background_removal.py:5-73              *)
(***************************************************************************)
PRIMARY_URL == "https://engine.prod.bria-api.com/v1/background/remove"
ALT_URL == "https://engine.prod.bria-api.com/v1/remove_background"
ALT_URL_V2 == "https://engine.prod.bria-api.com/v2/background/remove"

BgArgs(image_url, image_data, sync, content_moderation) ==
    [image_url |-> image_url, image_data |-> image_data, sync |-> sync,
     content_moderation |-> content_moderation]
NoBgArgs == BgArgs(PyNone, <<>>, TRUE, FALSE)

\* The status codes a provider endpoint may answer with; 0 stands for a request
\* that raised instead of answering.
BgStatuses == {200, 400, 401, 500}
BgAnswers == BgStatuses \cup {0}

\* lines 34-42: the request body, the same for every attempt.
BgBody(args) ==
    [sync |-> args.sync, content_moderation |-> args.content_moderation,
     image_url |-> IF Truthy(args.image_url) THEN args.image_url ELSE Missing,
     file |-> IF ~Truthy(args.image_url) /\ args.image_data # <<>>
              THEN PyStr(args.image_data) ELSE Missing]

\* lines 51 and 56 testing for any answer but 200.
TriggersFallbackUnless200(status) == status # 200

\* lines 51 and 56: the answer that sends the call to the next endpoint.
TriggersFallback(status) == status = 400

BgIdle ==
    /\ bg_pc = "idle"
    /\ bg_args = NoBgArgs
    /\ bg_posts = <<>>
    /\ bg_statuses = <<>>
    /\ bg_outcome = "none"

\* Lines 24-44: the call, its arguments, and the ValueError when no image is given.
BgCall ==
    /\ bg_pc = "idle"
    /\ \E image_url \in {PyNone, PyStr(<<>>), PyStr(<<"http", "s://x/p.png">>)},
          image_data \in ImageBytes, sync \in BOOLEAN, content_moderation \in BOOLEAN :
        /\ bg_args' = BgArgs(image_url, image_data, sync, content_moderation)
        /\ IF Truthy(image_url) \/ image_data # <<>>
           THEN bg_pc' = "primary" /\ bg_outcome' = "none"
           ELSE bg_pc' = "done" /\ bg_outcome' = "raised_value"
    /\ UNCHANGED <<bg_posts, bg_statuses, notBg>>

\* One requests.post to url and what follows it up to the next one (or to line 61).
BgSend(url, next) ==
    \E status \in BgAnswers :
        /\ bg_posts' = Append(bg_posts, [url |-> url, body |-> BgBody(bg_args)])
        /\ bg_statuses' = Append(bg_statuses, status)
        /\ IF status = 0
           THEN bg_pc' = "done" /\ bg_outcome' = "raised_request"
           ELSE /\ bg_pc' = IF next # "check" /\ TriggersFallback(status) THEN next ELSE "check"
                /\ bg_outcome' = "none"

\* line 48
BgPostPrimary ==
    /\ bg_pc = "primary"
    /\ BgSend(PRIMARY_URL, "alt1")
    /\ UNCHANGED <<bg_args, notBg>>

\* line 54
BgPostAlt1 ==
    /\ bg_pc = "alt1"
    /\ BgSend(ALT_URL, "alt2")
    /\ UNCHANGED <<bg_args, notBg>>

\* line 59
BgPostAlt2 ==
    /\ bg_pc = "alt2"
    /\ BgSend(ALT_URL_V2, "check")
    /\ UNCHANGED <<bg_args, notBg>>

\* Lines 61-73: raise_for_status, then response.json().
BgFinish ==
    /\ bg_pc = "check"
    /\ LET status == bg_statuses[Len(bg_statuses)]
       IN  IF status >= 400
           THEN bg_outcome' = "raised_http"
           ELSE \E json \in BOOLEAN :
                  bg_outcome' = IF json THEN "returned" ELSE "raised_json"
    /\ bg_pc' = "done"
    /\ UNCHANGED <<bg_args, bg_posts, bg_statuses, notBg>>

(***************************************************************************)
(* api_generate_video, src/app.py:192-234                                  *)
(***************************************************************************)
\* range(40), line 224
MaxPolls == 40
\* time.sleep(10), line 225
PollInterval == 10
\* How far past the attempt budget the enumerated jobs may complete.
ReadyMargin == 2

\* The provider's job: its status check reports done from the readyAt-th check on
\* (never when readyAt is 0): with an error ("error"), with generated videos, the
\* first one at uri ("ok"), or with neither an error nor a video ("empty").
VideoJob(readyAt, how) == [readyAt |-> readyAt, how |-> how, uri |-> "https://video/uri"]
NoJob == VideoJob(0, "none")
VideoJobs ==
    {VideoJob(n, how) : n \in 0..(MaxPolls + ReadyMargin), how \in {"ok", "error", "empty"}}

VidAnswer(outcome, status, video_url) ==
    [outcome |-> outcome, status |-> status, video_url |-> video_url]

\* The fields of the JSON request, lines 194-195.
VidReq(image_url, prompt) == [image_url |-> image_url, prompt |-> prompt]

\* The loop running one iteration too many.
LoopExhaustedLate(polls) == polls > MaxPolls

\* `for _ in range(40)`: no iteration is left.
LoopExhausted(polls) == polls >= MaxPolls

\* Lines 226-228: what client.operations.get reports on the polls-th check of job.
PollResult(job, polls) ==
    IF job.readyAt # 0 /\ polls >= job.readyAt
    THEN CASE job.how = "error" -> "done_error"
           [] job.how = "empty" -> "done_empty"
           [] OTHER -> "done"
    ELSE "pending"

\* Lines 227-230 with the `return` of line 229 left out of the error branch.
AfterCheckKeepsPollingOnError(status) ==
    IF status \in {"pending", "done_error"} THEN "sleep" ELSE "done"

\* Lines 227-234: a check that reports done, or raises, ends the handler; any
\* other one is followed by the next iteration of the loop.
AfterCheck(status) == IF status = "pending" THEN "sleep" ELSE "done"

\* Lines 229, 230 and 234: the answer after a status check that ends the handler.
\* Line 230 reads generated_videos[0] and raises when there is none.
CheckAnswer(status, job) ==
    CASE status = "done_error" -> VidAnswer("Failed", 500, "")
      [] status = "done" -> VidAnswer("Done", 200, job.uri)
      [] OTHER -> VidAnswer("Error", 500, "")

VidIdle ==
    /\ vid_pc = "idle"
    /\ vid_req = VidReq(FALSE, FALSE)
    /\ vid_job = NoJob
    /\ vid_polls = 0
    /\ vid_status = "none"
    /\ vid_clock = 0
    /\ vid_raised = FALSE
    /\ vid_http = VidAnswer("none", 0, "")

\* Lines 194-200: the request and its required fields.
ApiGenerateVideo ==
    /\ vid_pc = "idle"
    /\ \E has_image_url \in BOOLEAN, has_prompt \in BOOLEAN :
        /\ vid_req' = VidReq(has_image_url, has_prompt)
        /\ IF ~has_image_url \/ ~has_prompt
           THEN vid_pc' = "done" /\ vid_http' = VidAnswer("Rejected", 400, "")
           ELSE vid_pc' = "submit" /\ UNCHANGED vid_http
    /\ UNCHANGED <<vid_job, vid_polls, vid_status, vid_clock, vid_raised, notVid>>

\* Lines 203-221: download, decode, generate_videos; any of them may raise (line 233).
VidSubmit ==
    /\ vid_pc = "submit"
    /\ \E raises \in BOOLEAN, job \in VideoJobs :
        IF raises
        THEN /\ job = VideoJob(0, "ok")
             /\ vid_raised' = TRUE
             /\ vid_pc' = "done"
             /\ vid_http' = VidAnswer("Error", 500, "")
             /\ UNCHANGED vid_job
        ELSE /\ vid_job' = job
             /\ vid_pc' = "sleep"
             /\ UNCHANGED <<vid_raised, vid_http>>
    /\ UNCHANGED <<vid_req, vid_polls, vid_status, vid_clock, notVid>>

\* Lines 224-225: the next iteration of the loop starts with the sleep.
VidSleep ==
    /\ vid_pc = "sleep"
    /\ ~LoopExhausted(vid_polls)
    /\ vid_clock' = vid_clock + PollInterval
    /\ vid_pc' = "check"
    /\ UNCHANGED <<vid_req, vid_job, vid_polls, vid_status, vid_raised, vid_http, notVid>>

\* Lines 226-230: the status check and what it reports.
VidCheck ==
    /\ vid_pc = "check"
    /\ vid_polls' = vid_polls + 1
    /\ \E raises \in BOOLEAN :
        LET status == IF raises THEN "raised" ELSE PollResult(vid_job, vid_polls + 1)
        IN  /\ vid_status' = status
            /\ vid_raised' = (vid_raised \/ raises)
            /\ vid_pc' = AfterCheck(status)
            /\ vid_http' = IF status = "pending" THEN vid_http
                           ELSE CheckAnswer(status, vid_job)
    /\ UNCHANGED <<vid_req, vid_job, vid_clock, notVid>>

\* Line 232: the loop ran out.
VidTimeout ==
    /\ vid_pc = "sleep"
    /\ LoopExhausted(vid_polls)
    /\ vid_pc' = "done"
    /\ vid_http' = VidAnswer("TimedOut", 504, "")
    /\ UNCHANGED <<vid_req, vid_job, vid_polls, vid_status, vid_clock, vid_raised, notVid>>

(***************************************************************************)
(* The inbound endpoints and their required fields, src/app.py:83-174      *)
(***************************************************************************)
\* The fields of a request: TRUE for a field that is given (sent and not empty).
Form(prompt, image_file, image_url, operation) ==
    [prompt |-> prompt, image_file |-> image_file, image_url |-> image_url,
     operation |-> operation]
NoForm == Form(FALSE, FALSE, FALSE, "absent")

\* The values of the operation field: the four the dispatch knows, any other, none.
Operations == {"remove_bg", "packshot", "shadow", "lifestyle", "other", "absent"}

RqAnswer(status, error) == [status |-> status, error |-> error]

\* generate_hd_image and enhance_prompt (services/hd_image_generation.py and
\* services/prompt_enhancement.py): the body is built from the parameters as
\* they come and one blocking call is issued to the provider.
ServiceCalls(service, prompt) == <<service>>

\* Lines 123-128 without the else branch of lines 127-128.
ImageSourceWithoutReject(form) ==
    IF form.image_file THEN "file" ELSE "download"

\* Lines 123-128: where img_bytes comes from, "reject" when there is no image.
ImageSource(form) ==
    IF form.image_file THEN "file"
    ELSE IF form.image_url THEN "download"
    ELSE "reject"

\* Lines 131-142: the service the operation is dispatched to.
ServiceOf(operation) ==
    CASE operation = "remove_bg" -> "remove_background"
      [] operation = "packshot" -> "create_packshot"
      [] operation = "shadow" -> "add_shadow"
      [] operation = "lifestyle" -> "generate_product_shot"
      [] OTHER -> "none"

RqIdle ==
    /\ rq_pc = "idle"
    /\ rq_endpoint = "none"
    /\ rq_form = NoForm
    /\ rq_calls = <<>>
    /\ rq_http = RqAnswer(0, "")

\* api_generate_hd, lines 83-104: the prompt is read and handed to the service.
ApiGenerateHdRequest ==
    /\ rq_pc = "idle"
    /\ \E prompt \in BOOLEAN, raises \in BOOLEAN :
        /\ rq_form' = Form(prompt, FALSE, FALSE, "absent")
        /\ rq_calls' = ServiceCalls("generate_hd_image", prompt)
        /\ rq_http' = IF raises THEN RqAnswer(500, "exception text") ELSE RqAnswer(200, "")
    /\ rq_endpoint' = "generate_hd"
    /\ rq_pc' = "done"
    /\ UNCHANGED notRq

\* api_enhance, lines 106-115.
ApiEnhance ==
    /\ rq_pc = "idle"
    /\ \E prompt \in BOOLEAN, raises \in BOOLEAN :
        /\ rq_form' = Form(prompt, FALSE, FALSE, "absent")
        /\ rq_calls' = ServiceCalls("enhance_prompt", prompt)
        /\ rq_http' = IF raises THEN RqAnswer(500, "exception text") ELSE RqAnswer(200, "")
    /\ rq_endpoint' = "enhance_prompt"
    /\ rq_pc' = "done"
    /\ UNCHANGED notRq

\* api_process_photography, lines 117-174: the image, then the dispatch on the
\* operation.  how is what the service does: it returns a result, returns an
\* error object with a status (generate_product_shot only) or raises; bad_form
\* is a shadow intensity that int() of line 140 cannot read.
ApiProcessPhotography ==
    /\ rq_pc = "idle"
    /\ \E image_file \in BOOLEAN, image_url \in BOOLEAN, operation \in Operations,
          how \in {"returned", "error_object", "raised"}, bad_form \in BOOLEAN :
        LET form == Form(FALSE, image_file, image_url, operation)
            source == ImageSource(form)
            \* download_image(url) of lines 37-45 makes no request for an empty url
            fetched == IF source = "download" /\ image_url
                       THEN <<"download_image">> ELSE <<>>
        IN  /\ rq_form' = form
            /\ how = "error_object" => operation = "lifestyle"
            /\ bad_form => (operation = "shadow" /\ how = "raised")
            /\ IF source = "reject"
               THEN /\ how = "returned"
                    /\ rq_calls' = <<>>
                    /\ rq_http' = RqAnswer(400, "No image provided")
               ELSE IF ServiceOf(operation) = "none"
               THEN /\ how = "returned"
                    /\ rq_calls' = fetched
                    /\ rq_http' = RqAnswer(400, "Invalid operation")
               ELSE IF bad_form
               THEN /\ rq_calls' = fetched
                    /\ rq_http' = RqAnswer(500, "exception text")
               ELSE /\ rq_calls' = Append(fetched, ServiceOf(operation))
                    /\ rq_http' =
                         CASE how = "raised" -> RqAnswer(500, "exception text")
                           [] how = "error_object" -> RqAnswer(422, "result")
                           [] OTHER -> RqAnswer(200, "")
    /\ rq_endpoint' = "process_photography"
    /\ rq_pc' = "done"
    /\ UNCHANGED notRq

\* The next request: the handlers keep nothing between requests.
RqReset ==
    /\ rq_pc = "done"
    /\ rq_pc' = "idle"
    /\ rq_endpoint' = "none"
    /\ rq_form' = NoForm
    /\ rq_calls' = <<>>
    /\ rq_http' = RqAnswer(0, "")
    /\ UNCHANGED notRq

(***************************************************************************)
(* Two concurrent calls and the state of the process they share:           *)
(* merge_vision_and_prompt (src/services/lifestyle_shot.py:24-60) and      *)
(* generate_video_with_replicate (src/services/video_generator.py:15-42)   *)
(***************************************************************************)
Callers == {1, 2}

\* GOOGLE_API_KEY, configured when app.py is imported (lines 33-34), and the
\* keys and tokens a call may be given.
AppKey == "GOOGLE_API_KEY"
Credentials == {AppKey, "other key"}

\* A credential and the caller that stored it (0: the import of the module).
Stored(key, by) == [key |-> key, by |-> by]
NotUsed == Stored("none", 0)

CcIdle ==
    /\ cc_pc = [c \in Callers |-> "idle"]
    /\ cc_op = [c \in Callers |-> "none"]
    /\ cc_key = [c \in Callers |-> "none"]
    /\ cc_used = [c \in Callers |-> NotUsed]
    /\ cc_sdk = Stored(AppKey, 0)
    /\ cc_env = Stored("none", 0)

\* A request thread enters merge_vision_and_prompt or generate_video_with_replicate.
CcBegin(c) ==
    /\ cc_pc[c] = "idle"
    /\ \E op \in {"merge", "replicate"}, key \in Credentials :
        /\ cc_op' = [cc_op EXCEPT ![c] = op]
        /\ cc_key' = [cc_key EXCEPT ![c] = key]
    /\ cc_pc' = [cc_pc EXCEPT ![c] = "started"]
    /\ UNCHANGED <<cc_used, cc_sdk, cc_env, notCc>>

\* lifestyle_shot.py:25, genai.configure(api_key=gemini_api_key)
CcConfigure(c) ==
    /\ cc_pc[c] = "started" /\ cc_op[c] = "merge"
    /\ cc_sdk' = Stored(cc_key[c], c)
    /\ cc_pc' = [cc_pc EXCEPT ![c] = "configured"]
    /\ UNCHANGED <<cc_op, cc_key, cc_used, cc_env, notCc>>

\* lifestyle_shot.py:59, model.generate_content(content): the model object of
\* line 26 holds no key, the call runs with the module's configuration.
CcGenerateContent(c) ==
    /\ cc_pc[c] = "configured" /\ cc_op[c] = "merge"
    /\ cc_used' = [cc_used EXCEPT ![c] = cc_sdk]
    /\ cc_pc' = [cc_pc EXCEPT ![c] = "done"]
    /\ UNCHANGED <<cc_op, cc_key, cc_sdk, cc_env, notCc>>

\* video_generator.py:17, os.environ["REPLICATE_API_TOKEN"] = api_token
CcSetToken(c) ==
    /\ cc_pc[c] = "started" /\ cc_op[c] = "replicate"
    /\ cc_env' = Stored(cc_key[c], c)
    /\ cc_pc' = [cc_pc EXCEPT ![c] = "configured"]
    /\ UNCHANGED <<cc_op, cc_key, cc_used, cc_sdk, notCc>>

\* video_generator.py:33, replicate.run(...): the token is taken from the environment.
CcReplicateRun(c) ==
    /\ cc_pc[c] = "configured" /\ cc_op[c] = "replicate"
    /\ cc_used' = [cc_used EXCEPT ![c] = cc_env]
    /\ cc_pc' = [cc_pc EXCEPT ![c] = "done"]
    /\ UNCHANGED <<cc_op, cc_key, cc_sdk, cc_env, notCc>>

(***************************************************************************)
(* The specifications                                                      *)
(***************************************************************************)
InitExtract == ExIdle /\ ShIdle /\ BgIdle /\ VidIdle /\ RqIdle /\ CcIdle

NextExtract ==
    \/ ExtractUrlsCall
    \/ ApiGenerateHd
    \/ ApiProcessPhotographyResult
    \/ ExReset

SpecExtract == InitExtract /\ [][NextExtract]_vars

Init == ExIdle /\ ShIdle /\ BgIdle /\ VidIdle /\ RqIdle /\ CcIdle

Next ==
    \/ DirectCall
    \/ ApiLifestyleRequest
    \/ GenerateProductShot
    \/ ApiLifestyleRespond

Spec == Init /\ [][Next]_vars

NextBg ==
    \/ BgCall
    \/ BgPostPrimary
    \/ BgPostAlt1
    \/ BgPostAlt2
    \/ BgFinish

SpecBg == Init /\ [][NextBg]_vars

NextVideo ==
    \/ ApiGenerateVideo
    \/ VidSubmit
    \/ VidSleep
    \/ VidCheck
    \/ VidTimeout

SpecVideo == Init /\ [][NextVideo]_vars

\* The handler's thread keeps running: every sleep and every provider call returns.
SpecVideoLive == Init /\ [][NextVideo]_vars /\ WF_vars(NextVideo)

\* One inbound request, or one call of remove_background, at a time.
InboundQuiet == rq_pc = "idle" /\ vid_pc = "idle" /\ bg_pc = "idle"

NextInbound ==
    \/ InboundQuiet /\ ApiGenerateHdRequest
    \/ InboundQuiet /\ ApiEnhance
    \/ InboundQuiet /\ ApiProcessPhotography
    \/ RqReset
    \/ InboundQuiet /\ ApiGenerateVideo
    \/ VidSubmit
    \/ VidSleep
    \/ VidCheck
    \/ VidTimeout
    \/ InboundQuiet /\ BgCall
    \/ BgPostPrimary
    \/ BgPostAlt1
    \/ BgPostAlt2
    \/ BgFinish

SpecInbound == Init /\ [][NextInbound]_vars

NextConc ==
    \E c \in Callers :
        \/ CcBegin(c)
        \/ CcConfigure(c)
        \/ CcGenerateContent(c)
        \/ CcSetToken(c)
        \/ CcReplicateRun(c)

SpecConc == Init /\ [][NextConc]_vars

(***************************************************************************)
(* Properties of the extractor and of the payloads                         *)
(***************************************************************************)
Range(seq) == {seq[i] : i \in 1..Len(seq)}

\* Which of the rules of _extract_urls is the first to match `data`.
FirstRule(data) ==
    IF ~data.isDict THEN "none"
    ELSE IF data.result_urls.t = "list" THEN "result_urls"
    ELSE IF data.result_url.t # "absent" THEN "result_url"
    ELSE IF data.resultT = "list" THEN "result"
    ELSE IF data.urls.t = "list" THEN "urls"
    ELSE "none"

\* Every value an element of "result" holds.
ValuesIn(item) ==
    {item.url, AsValue(item)} \cup Range(item.urls.l) \cup Range(item.l)
    \cup {Str(<<c>>) : c \in Range(item.urls.s)}

\* C5: _extract_urls returns the URLs of the first matching rule, in the order
\* result_urls (a list), result_url (present), result (a list), urls (a list):
\* nothing of a lower-priority key is merged in, and with no matching rule the
\* result is the empty list.
C5_FirstMatchWins ==
    ex_pc = "done" =>
        CASE FirstRule(ex_data) = "result_urls" ->
                ex_ret = Returned(ex_data.result_urls.l)
          [] FirstRule(ex_data) = "result_url" ->
                ex_ret = Returned(<<ex_data.result_url>>)
          [] FirstRule(ex_data) = "result" ->
                /\ Len(ex_ret.urls) <= Len(ex_data.result)
                /\ \A u \in Range(ex_ret.urls) :
                      /\ u \in UNION {ValuesIn(item) : item \in Range(ex_data.result)}
                      /\ u \notin Range(ex_data.urls.l)
          [] FirstRule(ex_data) = "urls" ->
                ex_ret = Returned(ex_data.urls.l)
          [] OTHER -> ex_ret = Returned(<<>>)

\* A higher-priority rule produced URLs while the lower-priority urls key held its own.
C5_Witness ==
    /\ ex_pc = "done"
    /\ FirstRule(ex_data) \in {"result_url", "result"}
    /\ ex_data.urls.t = "list" /\ ex_data.urls.l # <<>>
    /\ ex_ret.urls # <<>>

\* C6: _extract_urls never raises, whatever JSON value it is given.
C6_NeverRaises == ex_pc = "done" => ~ex_ret.raised

\* What an element of "result" contributes according to the result-list rule.
Contribution(item) ==
    IF item.t = "obj" /\ item.urls.t = "list" /\ item.urls.l # <<>> THEN <<item.urls.l[1]>>
    ELSE IF item.t = "obj" /\ item.url.t # "absent" THEN <<item.url>>
    ELSE IF item.t = "list" /\ item.l # <<>> THEN <<item.l[1]>>
    ELSE IF item.t = "str" THEN <<AsValue(item)>>
    ELSE <<>>

RECURSIVE Contributions(_)
Contributions(items) ==
    IF items = <<>> THEN <<>>
    ELSE Contribution(Head(items)) \o Contributions(Tail(items))

\* C7: under the result-list rule the output is built element by element in
\* input order: an object with a non-empty urls list gives that list's first
\* entry, otherwise an object with a url key gives its value, a non-empty list
\* its first entry, a string itself, and every other element is skipped.
C7_ResultRule ==
    (ex_pc = "done" /\ FirstRule(ex_data) = "result" /\ ~ex_ret.raised) =>
        /\ ex_ret.urls = Contributions(ex_data.result)
        /\ Len(ex_ret.urls) <= Len(ex_data.result)

\* C8: in every success payload result_url is the first element of urls, or
\* null when urls is empty; a non-null result_url implies a non-empty urls.
C8_PrimaryUrl ==
    ex_payload.kind = "success" =>
        /\ ex_payload.result_url =
             (IF ex_payload.urls # <<>> THEN ex_payload.urls[1] ELSE Null)
        /\ ex_payload.result_url # Null => ex_payload.urls # <<>>


(***************************************************************************)
(* Properties of generate_product_shot and of the lifestyle operation      *)
(***************************************************************************)
ShotReturned == sh_pc \in {"returned", "responded"} /\ sh_posts # <<>>

\* An image argument that is given: a non-empty string.
Given(v) == v.k = "str" /\ v.s # <<>>
\* A scene description that is absent, empty or the default studio prompt
\* (surrounding whitespace aside).
NoCustomPrompt(sd) == sd.k = "none" \/ sd.s = <<>> \/ Strip(sd.s) = DEFAULT_PROMPT
\* A scene description with text other than the default studio prompt
\* (surrounding whitespace aside).
CustomPrompt(sd) == sd.k = "str" /\ sd.s # <<>> /\ Strip(sd.s) # DEFAULT_PROMPT

CarriesProduct(body) == body.file.k = "str" \/ body.image_url.k = "str"
CarriesReference(body) == body.ref_image_file.k = "str" \/ body.ref_image_url.k = "str"
NoReferenceKeys(body) == body.ref_image_file = Missing /\ body.ref_image_url = Missing

\* C1: with a product image, a reference image and no custom prompt (absent,
\* empty or the default prompt) there is exactly one POST, to
\* lifestyle_shot_by_image, whose body carries the product image and the
\* reference image and no scene_description, and the merger is not invoked.
C1_ExactComposition ==
    (/\ ShotReturned
     /\ Given(sh_args.image_data)
     /\ Given(sh_args.ref_image_data)
     /\ NoCustomPrompt(sh_args.scene_description)) =>
        /\ Len(sh_posts) = 1
        /\ sh_posts[1].url = "https://engine.prod.bria-api.com/v1/product/lifestyle_shot_by_image"
        /\ CarriesProduct(sh_posts[1].body)
        /\ CarriesReference(sh_posts[1].body)
        /\ sh_posts[1].body.scene_description = Missing
        /\ sh_merges = <<>>

\* The HTTP layer took a request with a template and the default prompt to the by-image route.
C1_Witness ==
    /\ sh_pc = "responded"
    /\ sh_caller = "app"
    /\ sh_args.scene_description = PyStr(DEFAULT_PROMPT)
    /\ sh_args.ref_image_data = PyStr(<<"assets/templates/", "t.png">>)
    /\ Given(sh_args.image_data)
    /\ sh_route = "exact"
    /\ sh_posts[1].body.ref_image_file = FileB64(<<"assets/templates/", "t.png">>)
    /\ sh_http.kind = "success"

\* C2: with a product image, a reference image, a custom prompt and a vision
\* key the merger is invoked once with (reference, custom prompt), the POST
\* goes to lifestyle_shot_by_text with scene_description equal to the merger's
\* output, and the body holds neither ref_image_file nor ref_image_url.
C2_CreativeMerge ==
    (/\ ShotReturned
     /\ Given(sh_args.image_data)
     /\ Given(sh_args.ref_image_data)
     /\ CustomPrompt(sh_args.scene_description)
     /\ Given(sh_args.gemini_api_key)) =>
        /\ Len(sh_merges) = 1
        /\ sh_merges[1].ref = sh_args.ref_image_data
        /\ sh_merges[1].prompt = sh_args.scene_description
        /\ Len(sh_posts) = 1
        /\ sh_posts[1].url = "https://engine.prod.bria-api.com/v1/product/lifestyle_shot_by_text"
        /\ sh_posts[1].body.scene_description = sh_merges[1].out
        /\ NoReferenceKeys(sh_posts[1].body)

\* The merger produced a prompt of its own and the by-text request carried it.
C2_Witness ==
    /\ ShotReturned
    /\ sh_route = "merge"
    /\ Given(sh_args.image_data)
    /\ sh_args.ref_image_data = PyStr(<<"http", "s://x/template.png">>)
    /\ sh_merges[1].out = PyStr(<<"product on the rustic wooden table">>)
    /\ sh_posts[1].body.scene_description = PyStr(<<"product on the rustic wooden table">>)

\* C3: whenever a scene description is present and neither the
\* Exact-Composition nor the Creative-Merge condition holds, the POST goes to
\* lifestyle_shot_by_text with the product image and scene_description equal
\* to the given scene description, and the merger is not invoked.
C3_TextOnly ==
    (/\ ShotReturned
     /\ Given(sh_args.scene_description)
     /\ ~(~CustomPrompt(sh_args.scene_description) /\ Given(sh_args.ref_image_data))
     /\ ~(/\ CustomPrompt(sh_args.scene_description)
          /\ Given(sh_args.ref_image_data)
          /\ Given(sh_args.gemini_api_key))) =>
        /\ Len(sh_posts) = 1
        /\ sh_posts[1].url = "https://engine.prod.bria-api.com/v1/product/lifestyle_shot_by_text"
        /\ Given(sh_args.image_data) => CarriesProduct(sh_posts[1].body)
        /\ sh_posts[1].body.scene_description = sh_args.scene_description
        /\ NoReferenceKeys(sh_posts[1].body)
        /\ sh_merges = <<>>

\* A custom prompt with a reference image but no vision key went the text-only way.
C3_Witness ==
    /\ ShotReturned
    /\ Given(sh_args.image_data)
    /\ Given(sh_args.ref_image_data)
    /\ sh_args.scene_description = PyStr(<<"on a beach">>)
    /\ sh_args.gemini_api_key = PyNone
    /\ sh_route = "text"
    /\ sh_posts[1].body.scene_description = PyStr(<<"on a beach">>)

\* C4: on every route, when the provider answers the POST with an HTTP error,
\* generate_product_shot returns an error object {error, status_code,
\* url_attempted} with the provider's status and the route's endpoint, and the
\* lifestyle endpoint answers with that object and that status.
C4_ErrorObject ==
    (ShotReturned /\ sh_env.kind = "http_error") =>
        /\ sh_ret.kind = "error_obj"
        /\ sh_ret.error_key
        /\ sh_ret.status_code = sh_env.status
        /\ sh_ret.url_attempted = sh_posts[1].url
        /\ (sh_pc = "responded" /\ sh_caller = "app") =>
              sh_http = [kind |-> "error", status |-> sh_env.status, body |-> "result"]

\* The provider refused a merged by-text request with 422 and the endpoint passed it on.
C4_Witness ==
    /\ sh_pc = "responded"
    /\ sh_caller = "app"
    /\ sh_route = "merge"
    /\ sh_env.kind = "http_error" /\ sh_env.status = 422
    /\ sh_ret.status_code = 422
    /\ sh_http.status = 422


\* C13: merge_vision_and_prompt never raises and on every failure (no library,
\* decode or fetch error, model error) returns the user prompt unchanged: on
\* the Creative-Merge route a failed merge is still followed by the one POST
\* to lifestyle_shot_by_text, carrying the caller's scene description as it
\* was given, and neither generate_product_shot nor the endpoint reports the
\* merger's failure.
C13_MergerDegrades ==
    (sh_pc \in {"returned", "responded"} /\ sh_route = "merge") =>
        /\ Len(sh_merges) = 1
        /\ sh_merges[1].out.k = "str"
        /\ sh_ret.kind # "raised"
        /\ Len(sh_posts) = 1
        /\ sh_posts[1].url = "https://engine.prod.bria-api.com/v1/product/lifestyle_shot_by_text"
        /\ sh_merges[1].how # "merged" =>
              /\ sh_merges[1].out = sh_args.scene_description
              /\ sh_posts[1].body.scene_description = sh_args.scene_description
              /\ NoReferenceKeys(sh_posts[1].body)
              /\ (sh_pc = "responded" /\ sh_env.kind = "ok" /\ ~sh_env.errkey
                  /\ ~extract_urls(sh_env.data).raised) => sh_http.kind = "success"

\* The reference was a data-URI the merger could not decode; the request went out
\* with the caller's prompt, surrounding blanks included, and the endpoint answered 200.
C13_Witness ==
    /\ sh_pc = "responded"
    /\ sh_route = "merge"
    /\ sh_args.ref_image_data = PyStr(<<"data:image", "/png;base64">>)
    /\ sh_merges[1].how = "failed"
    /\ sh_args.scene_description = PyStr(<<" ", "on a beach", " ">>)
    /\ sh_posts[1].body.scene_description = PyStr(<<" ", "on a beach", " ">>)
    /\ sh_http.kind = "success"


(***************************************************************************)
(* Properties of _prepare_image, seen in the request body it fills         *)
(***************************************************************************)
\* An image reference that begins with data:image.
DataUri(v) == v.k = "str" /\ v.s # <<>> /\ v.s[1] = "data:image"

\* The inline and URL values a data-URI has to be resolved to: with a comma, the
\* inline payload is what follows the first one and there is no URL; without
\* one, the URL is the whole string and there is no inline payload.
DataUriResolved(ref, file, url) ==
    IF \E i \in 1..Len(ref.s) : ref.s[i] = ","
    THEN /\ url = Missing
         /\ file.k = "str"
         /\ \E i \in 1..Len(ref.s) :
               /\ ref.s[i] = ","
               /\ \A j \in 1..(i - 1) : ref.s[j] # ","
               /\ ref.s = SubSeq(ref.s, 1, i) \o file.s
    ELSE file = Missing /\ url = ref

\* C14: a reference beginning with data:image is resolved to the inline kind
\* with exactly what follows its first comma, or, when it holds no comma, to
\* the URL kind with the whole string; resolving it never raises.  Stated for
\* the product image of every request and for the reference image of the
\* requests that resolve one.
C14_DataUri ==
    (sh_pc \in {"returned", "responded"} /\ sh_route # "none") =>
        /\ sh_ret.kind # "raised"
        /\ Len(sh_posts) = 1
        /\ DataUri(sh_args.image_data) =>
              DataUriResolved(sh_args.image_data,
                              sh_posts[1].body.file, sh_posts[1].body.image_url)
        /\ (DataUri(sh_args.ref_image_data) /\ sh_route = "exact") =>
              DataUriResolved(sh_args.ref_image_data,
                              sh_posts[1].body.ref_image_file, sh_posts[1].body.ref_image_url)

\* A product data-URI without a comma went out as image_url, and a reference
\* data-URI with two commas went out inline from its first comma on.
C14_Witness ==
    /\ ShotReturned
    /\ sh_route = "exact"
    /\ sh_args.image_data = PyStr(<<"data:image", "/png;base64">>)
    /\ sh_posts[1].body.image_url = PyStr(<<"data:image", "/png;base64">>)
    /\ sh_posts[1].body.file = Missing
    /\ sh_args.ref_image_data = PyStr(<<"data:image", "/png;base64", ",", "iVBOR", ",", "tail">>)
    /\ sh_posts[1].body.ref_image_file = PyStr(<<"iVBOR", ",", "tail">>)
    /\ sh_posts[1].body.ref_image_url = Missing


\* C15: resolving an image reference gives exactly one of an inline payload
\* and a URL, never both and never neither: every request body holds the
\* product image, a string, under exactly one of file and image_url (an
\* http(s) reference unchanged under image_url), and the reference image
\* under at most one of ref_image_file and ref_image_url.
C15_OneCanonicalForm ==
    (sh_pc \in {"returned", "responded"} /\ sh_route # "none") =>
        /\ Len(sh_posts) = 1
        /\ (sh_posts[1].body.file.k = "str") # (sh_posts[1].body.image_url.k = "str")
        /\ sh_posts[1].body.file \in {Missing, prepare_image(sh_args.image_data).val}
        /\ sh_posts[1].body.image_url \in {Missing, prepare_image(sh_args.image_data).val}
        /\ (sh_args.image_data.k = "str" /\ StartsWith(sh_args.image_data.s, <<"http">>)) =>
              sh_posts[1].body.image_url = sh_args.image_data
        /\ ~(sh_posts[1].body.ref_image_file # Missing /\ sh_posts[1].body.ref_image_url # Missing)
        /\ sh_posts[1].body.ref_image_file # Missing => sh_posts[1].body.ref_image_file.k = "str"
        /\ sh_posts[1].body.ref_image_url # Missing => sh_posts[1].body.ref_image_url.k = "str"


\* An image reference that is neither a data-URI nor an HTTP(S) URL.
LocalRef(v) == v.k = "str" /\ v.s # <<>> /\ v.s[1] \notin {"data:image", "http"}

\* The inline value of a local reference whose path, once stripped, is `path`:
\* the encoded contents of the file when it exists and can be read, the
\* reference as it was given otherwise; and no URL.
LocalResolved(ref, path, file, url) ==
    /\ url = Missing
    /\ file = IF path \in ExistingPaths /\ path \in ReadablePaths
              THEN PyStr(<<"b64 of">> \o path)
              ELSE ref

\* ref with one leading separator taken off, if it has one.
OneSeparatorOff(ref) == IF ref.s[1] = "/" THEN SubSeq(ref.s, 2, Len(ref.s)) ELSE ref.s

\* path is ref with all of its leading separators taken off.
AllSeparatorsOff(ref, path) ==
    /\ path = <<>> \/ path[1] # "/"
    /\ \E n \in 0..Len(ref.s) :
          /\ \A j \in 1..n : ref.s[j] = "/"
          /\ ref.s = SubSeq(ref.s, 1, n) \o path

\* C16 as claimed: a reference that is neither a data-URI nor an HTTP(S) URL
\* has a single leading separator stripped; the file at that path, when it
\* exists and can be read, is sent base64-encoded as inline, otherwise the
\* original string is the inline payload; nothing is raised.
C16_SingleSeparator ==
    (sh_pc \in {"returned", "responded"} /\ sh_route # "none") =>
        /\ sh_ret.kind # "raised"
        /\ Len(sh_posts) = 1
        /\ LocalRef(sh_args.image_data) =>
              LocalResolved(sh_args.image_data, OneSeparatorOff(sh_args.image_data),
                            sh_posts[1].body.file, sh_posts[1].body.image_url)
        /\ (LocalRef(sh_args.ref_image_data) /\ sh_route = "exact") =>
              LocalResolved(sh_args.ref_image_data, OneSeparatorOff(sh_args.ref_image_data),
                            sh_posts[1].body.ref_image_file, sh_posts[1].body.ref_image_url)

\* C16 as amended: every leading separator is stripped, not only one; the rest
\* is as claimed.
C16_AllSeparators ==
    (sh_pc \in {"returned", "responded"} /\ sh_route # "none") =>
        /\ sh_ret.kind # "raised"
        /\ Len(sh_posts) = 1
        /\ LocalRef(sh_args.image_data) =>
              \E n \in 0..Len(sh_args.image_data.s) :
                 LET path == SubSeq(sh_args.image_data.s, n + 1, Len(sh_args.image_data.s))
                 IN  /\ AllSeparatorsOff(sh_args.image_data, path)
                     /\ LocalResolved(sh_args.image_data, path,
                                      sh_posts[1].body.file, sh_posts[1].body.image_url)
        /\ (LocalRef(sh_args.ref_image_data) /\ sh_route = "exact") =>
              \E n \in 0..Len(sh_args.ref_image_data.s) :
                 LET path == SubSeq(sh_args.ref_image_data.s, n + 1,
                                    Len(sh_args.ref_image_data.s))
                 IN  /\ AllSeparatorsOff(sh_args.ref_image_data, path)
                     /\ LocalResolved(sh_args.ref_image_data, path,
                                      sh_posts[1].body.ref_image_file,
                                      sh_posts[1].body.ref_image_url)

\* The endpoint passed on a template path with two leading separators and the
\* template's file went out inline.
C16_Witness ==
    /\ sh_pc = "responded"
    /\ sh_caller = "app"
    /\ sh_route = "exact"
    /\ sh_args.ref_image_data = PyStr(<<"/", "/", "assets/templates/", "t.png">>)
    /\ sh_posts[1].body.ref_image_file = PyStr(<<"b64 of", "assets/templates/", "t.png">>)
    /\ sh_posts[1].body.ref_image_url = Missing
    /\ LocalRef(sh_args.image_data)
    /\ sh_posts[1].body.file = sh_args.image_data


\* C20: every request to lifestyle_shot_by_image carries the product image and
\* a reference image, the last branch of the routing being taken only with a
\* reference image; and every request body has placement_type "original".
C20_ByImageHasReference ==
    (sh_pc \in {"returned", "responded"} /\ sh_route # "none") =>
        /\ Len(sh_posts) = 1
        /\ sh_route = "fallback" => Given(sh_args.ref_image_data)
        /\ sh_posts[1].url = "https://engine.prod.bria-api.com/v1/product/lifestyle_shot_by_image" =>
              /\ Given(sh_args.image_data) => CarriesProduct(sh_posts[1].body)
              /\ CarriesReference(sh_posts[1].body)
        /\ sh_posts[1].body.placement_type = PyStr(<<"original">>)


(***************************************************************************)
(* Properties of remove_background                                         *)
(***************************************************************************)
BgUrls == [i \in 1..Len(bg_posts) |-> bg_posts[i].url]
BgFallbackOrder == <<PRIMARY_URL, ALT_URL, ALT_URL_V2>>
BgLastStatus == bg_statuses[Len(bg_statuses)]

\* C9 as claimed: after a 400 from the primary endpoint the call either fails
\* after exactly the two fallback attempts, in order, or has stopped at the
\* first attempt that returned 200 (every attempt having been answered).
C9_TwoFallbacksBeforeFailing ==
    (/\ bg_pc = "done"
     /\ bg_statuses # <<>>
     /\ bg_statuses[1] = 400
     /\ \A i \in 1..Len(bg_statuses) : bg_statuses[i] # 0) =>
        IF \E i \in 1..Len(bg_statuses) : bg_statuses[i] = 200
        THEN /\ BgLastStatus = 200
             /\ \A i \in 1..(Len(bg_statuses) - 1) : bg_statuses[i] # 200
             /\ bg_outcome \in {"returned", "raised_json"}
        ELSE /\ bg_outcome \in {"raised_http", "raised_json"}
             /\ BgUrls = BgFallbackOrder

\* C9 as amended: the endpoints are tried in the fixed order primary,
\* v1/remove_background, v2/background/remove; an attempt is followed by the
\* next one exactly when it was answered 400 and one is left; the call fails
\* with an HTTP error when the last answer is an error status, so it fails
\* after two fallback attempts only when the primary and the first fallback
\* both answered 400, and it returns on a 200 answer with a JSON body.
C9_FallbackOn400 ==
    /\ Len(bg_posts) = Len(bg_statuses)
    /\ Len(bg_posts) <= 3
    /\ BgUrls = SubSeq(BgFallbackOrder, 1, Len(bg_posts))
    /\ \A i \in 1..(Len(bg_statuses) - 1) : bg_statuses[i] = 400
    /\ (bg_pc \in {"check", "done"} /\ bg_statuses # <<>>) =>
          (BgLastStatus # 400 \/ Len(bg_posts) = 3)
    /\ bg_pc = "done" =>
          /\ bg_outcome = "returned" => (BgLastStatus # 0 /\ BgLastStatus < 400)
          /\ (bg_statuses # <<>> /\ BgLastStatus >= 400) => bg_outcome = "raised_http"
          /\ (bg_statuses # <<>> /\ BgLastStatus = 200) =>
                bg_outcome \in {"returned", "raised_json"}
          /\ (bg_outcome = "raised_http" /\ Len(bg_posts) = 3) =>
                (bg_statuses[1] = 400 /\ bg_statuses[2] = 400)

\* Both fallbacks were tried, in order, and the call failed on the third answer.
C9_Witness ==
    /\ bg_pc = "done"
    /\ bg_statuses = <<400, 400, 500>>
    /\ BgUrls = BgFallbackOrder
    /\ bg_outcome = "raised_http"


(***************************************************************************)
(* Properties of the video poll loop                                       *)
(***************************************************************************)
\* The poll loop ended without any provider call raising.
VidPolledToEnd ==
    vid_pc = "done" /\ vid_http.outcome \in {"Done", "Failed", "TimedOut"} /\ ~vid_raised

\* C10: a job whose status check first reports done without error on poll N
\* (N < 40) ends Done with the extracted URI after exactly N polls and N x 10
\* time units; a job that never reports done ends TimedOut after exactly 40
\* polls and 400 time units; no run issues more than 40 status checks.
C10_PollBudget ==
    /\ vid_polls <= 40
    /\ (VidPolledToEnd /\ vid_job.how = "ok" /\ vid_job.readyAt \in 1..39) =>
          /\ vid_http.outcome = "Done"
          /\ vid_http.video_url = vid_job.uri
          /\ vid_polls = vid_job.readyAt
          /\ vid_clock = vid_job.readyAt * 10
    /\ (VidPolledToEnd /\ vid_job.readyAt = 0) =>
          /\ vid_http.outcome = "TimedOut"
          /\ vid_polls = 40
          /\ vid_clock = 400
    /\ vid_http.outcome = "Done" => vid_clock = vid_polls * 10
    /\ vid_http.outcome = "TimedOut" => (vid_polls = 40 /\ vid_clock = 400)

\* A job that completes on the 39th status check ended Done after 390 time units.
C10_Witness ==
    /\ vid_pc = "done"
    /\ vid_job.readyAt = 39
    /\ vid_http.outcome = "Done"
    /\ vid_polls = 39
    /\ vid_clock = 390

\* C11: the poll result decides the outcome: done with an error ends Failed
\* (HTTP 500, the error's text), done without error ends Done with the first
\* generated video's URI, not done leaves the job polling, and running out of
\* attempts is answered with 504, a status no other outcome has.
C11_Classification ==
    /\ vid_status = "done_error" =>
          (vid_pc = "done" /\ vid_http = VidAnswer("Failed", 500, ""))
    /\ vid_status \in {"done", "done_empty"} =>
          (vid_pc = "done" /\ vid_http = VidAnswer("Done", 200, vid_job.uri))
    /\ vid_status = "pending" =>
          \/ vid_pc \in {"sleep", "check"} /\ vid_http.outcome = "none"
          \/ vid_pc = "done" /\ vid_http = VidAnswer("TimedOut", 504, "")
    /\ vid_http.outcome = "TimedOut" <=> vid_http.status = 504
    /\ vid_http.outcome = "TimedOut" => (vid_status = "pending" /\ vid_polls = MaxPolls)

\* The HTTP answers that end a submitted job: 200 (Done), 500 (Failed) and 504 (TimedOut).
VidTerminal == vid_pc = "done" /\ vid_http.status \in {200, 500, 504}

\* C12: every submitted job ends in exactly one terminal answer whatever the
\* provider does, a raising status check included; a status check is issued
\* only once the previous one has been observed to report not done, one at a
\* time; and after the terminal answer no status check is issued and the
\* answer does not change.
C12_OneTerminalOutcome ==
    /\ [](vid_pc = "done" => vid_http.status # 0)
    /\ [](vid_http.status # 0 => vid_pc = "done")
    /\ [][vid_http.status # 0 => (vid_http' = vid_http /\ vid_polls' = vid_polls)]_vars
    /\ [][vid_polls' # vid_polls =>
            /\ vid_polls' = vid_polls + 1
            /\ vid_status \in {"none", "pending"}
            /\ vid_status' # "none"
            /\ vid_clock = PollInterval * vid_polls']_vars
    /\ (vid_job # NoJob) ~> VidTerminal

\* The third status check of a job raised and the handler answered 500.
C12_Witness ==
    /\ vid_pc = "done"
    /\ vid_job # NoJob
    /\ vid_status = "raised"
    /\ vid_polls = 3
    /\ vid_clock = 30
    /\ vid_http.status = 500

(***************************************************************************)
(* Properties of the inbound requests                                      *)
(***************************************************************************)
\* An error answer that was given without any download or service call.
RejectedAtOnce == rq_http.status >= 400 /\ rq_calls = <<>>

\* C17: a request without a required field is rejected with an error before
\* any provider call: generate_hd and enhance_prompt without a prompt,
\* process_photography without an image, generate_video without an image URL
\* or a prompt, remove_background with neither image data nor an image URL.
C17_MissingFieldRejected ==
    /\ (rq_pc = "done" /\ rq_endpoint \in {"generate_hd", "enhance_prompt"}
        /\ ~rq_form.prompt) => RejectedAtOnce
    /\ (rq_pc = "done" /\ rq_endpoint = "process_photography"
        /\ ~rq_form.image_file /\ ~rq_form.image_url) => RejectedAtOnce
    /\ (vid_pc # "idle" /\ (~vid_req.image_url \/ ~vid_req.prompt)) =>
          /\ vid_pc = "done"
          /\ vid_http.status = 400
          /\ vid_job = NoJob /\ vid_polls = 0
    /\ (bg_pc # "idle" /\ ~Truthy(bg_args.image_url) /\ bg_args.image_data = <<>>) =>
          /\ bg_pc = "done"
          /\ bg_outcome = "raised_value"
          /\ bg_posts = <<>>

\* C18: process_photography with neither an uploaded image nor an image URL
\* answers {error: "No image provided"} with 400 whatever the operation field
\* holds, and makes no download and no service call.
C18_NoImageProvided ==
    (rq_pc = "done" /\ rq_endpoint = "process_photography"
     /\ ~rq_form.image_file /\ ~rq_form.image_url) =>
        /\ rq_http = RqAnswer(400, "No image provided")
        /\ rq_calls = <<>>

\* The request of the debug script: operation=remove_bg and no image.
C18_Witness ==
    /\ rq_pc = "done"
    /\ rq_endpoint = "process_photography"
    /\ rq_form = Form(FALSE, FALSE, FALSE, "remove_bg")
    /\ rq_http = RqAnswer(400, "No image provided")
    /\ rq_calls = <<>>

(***************************************************************************)
(* Properties of concurrent calls                                          *)
(***************************************************************************)
\* C19: concurrent requests share no mutable state, so that under every
\* interleaving each call ends as it would alone: its SDK call runs with the
\* credential the call was given, never with one that the other call stored
\* in the SDK configuration or in the environment.
C19_NoSharedState ==
    \A c \in Callers : cc_pc[c] = "done" => cc_used[c].key = cc_key[c]

=============================================================================
